---- MODULE Spec2Model ----
(***************************************************************************)
(* A model of agent-stack's two stateful subsystems:                       *)
(*   - the memory manager of src/agent/react_agent.py (the Redis list that *)
(*     holds a thread's short-term window, and the Mem0 long-term store),  *)
(*   - the dispatcher of src/dispatcher/dispatcher.py (per-user sandbox    *)
(*     provisioning through the Docker API and the retrying proxy).        *)
(*                                                                         *)
(* Strings are sequences: identifiers are sequences of characters, texts   *)
(* are sequences of words, and string concatenation is \o.  A Python None  *)
(* is the one-element sequence None, which no string of the model equals.  *)
(***************************************************************************)
EXTENDS Naturals, Integers, Sequences, FiniteSets, TLC

VARIABLES
    window,     \* the window argument the record_turn calls of a behaviour use
    stm,        \* Redis: thread id -> the list stored under session:<id>:history
    pushed,     \* auxiliary: thread id -> number of turns ever pushed to its list
    ltm,        \* Mem0: the sequence of stored memory records, oldest first
    lastOp,     \* auxiliary: what the last memory operation was and what it did
    networks,   \* Docker: number of networks whose name is NETWORK_NAME
    containers, \* Docker: the sequence of containers, in creation order
    pc,         \* dispatcher worker -> the place its request handler has reached
    req,        \* dispatcher worker -> the request it is handling
    attempt,    \* dispatcher worker -> the loop variable of proxy's retry loop
    disp,       \* auxiliary: dispatcher worker -> what its handler did so far
    proc        \* concurrent caller of the memory manager -> its call's place and locals

memVars  == <<window, stm, pushed, ltm, lastOp, proc>>
dispVars == <<networks, containers, pc, req, attempt, disp>>
vars     == <<window, stm, pushed, ltm, lastOp, proc,
              networks, containers, pc, req, attempt, disp>>

(***************************************************************************)
(* Bounds of the model.                                                    *)
(***************************************************************************)
MaxWindow == 2      \* record_turn is tried with every window in 0..MaxWindow
MaxTurns  == 4      \* turns pushed in one behaviour, over all threads
MaxRuns   == 4      \* run() calls that answer in one behaviour, over all threads
MaxContainers == 3  \* containers the Docker daemon holds in one behaviour
MaxLtm    == 3      \* records the long-term store holds in one behaviour
MaxAdds   == 2      \* add_memory calls with a failing store in one behaviour
MaxFaultyRuns == 3  \* run() calls that store a turn, in a failing environment

\* store_stm's default for its window parameter
DefaultWindow == 5

(***************************************************************************)
(* Strings.                                                                *)
(***************************************************************************)
None == <<"<None>">>
Sep  == "_"

ua == <<"a">>
ub == <<"b">>
UserIds    == {ua, ub}
SessionIds == {<<"s">>}
Texts      == {<<"x">>, <<"y">>}
Roles      == {"human", "assistant"}

\* main.py: thread_id = f"{user_id}_{session_id}"
ThreadIdOf(user_id, session_id) == user_id \o <<Sep>> \o session_id

ThreadIds == {ThreadIdOf(u, s) : u \in UserIds, s \in SessionIds}

\* the user_id and session_id query parameters the /agent requests are tried
\* with: identifiers without and with the separator
uab == <<"a", Sep, "b">>
ReqUserIds    == {ua, uab}
ReqSessionIds == {<<"s">>, <<"b", Sep, "s">>}

\* every key of the form session:<thread_id>:history the model uses
AllThreadIds == ThreadIds \cup {ThreadIdOf(u, s) : u \in ReqUserIds, s \in ReqSessionIds}

HasSep(t) == \E i \in 1..Len(t) : t[i] = Sep

FirstSep(t) == CHOOSE i \in 1..Len(t) : t[i] = Sep /\ \A j \in 1..(i - 1) : t[j] # Sep

\* thread_id.split("_", 1), for a thread id that holds a separator
SplitThread(t) ==
    <<SubSeq(t, 1, FirstSep(t) - 1), SubSeq(t, FirstSep(t) + 1, Len(t))>>

\* f"Question:{q}, Agent Answer:{a}"
MemItem(q, a) == <<"Question:">> \o q \o <<", Agent Answer:">> \o a

\* Python truthiness of an Optional[str]
Falsy(s) == s = None \/ s = <<>>

(***************************************************************************)
(* Redis list commands, on the list stored under one key.                  *)
(***************************************************************************)
LPush(l, x) == <<x>> \o l

RPush(l, x) == Append(l, x)

LLen(l) == Len(l)

\* LPOP: the popped value as <<v>>, or <<>> for nil
LPopValue(l) == IF l = <<>> THEN <<>> ELSE <<Head(l)>>

LPopRest(l) == IF l = <<>> THEN <<>> ELSE Tail(l)

\* LINDEX key 0: <<v>>, or <<>> for nil
LIndexHead(l) == IF l = <<>> THEN <<>> ELSE <<l[1]>>

\* LTRIM key start stop, with Redis's handling of negative and out-of-range
\* indices (0-based, both ends inclusive)
LTrim(l, start, stop) ==
    LET n  == Len(l)
        s0 == IF start < 0 THEN n + start ELSE start
        s  == IF s0 < 0 THEN 0 ELSE s0
        e0 == IF stop < 0 THEN n + stop ELSE stop
        e  == IF e0 >= n THEN n - 1 ELSE e0
    IN  IF s >= n \/ s > e THEN <<>> ELSE SubSeq(l, s + 1, e + 1)

\* LRANGE key start stop: the elements LTRIM would keep
LRange(l, start, stop) == LTrim(l, start, stop)

\* load_stm: [json.loads(item) for item in self.redis.lrange(key, 0, -1)]; an
\* item is the json.dumps of {"role": role, "text": text}, and decodes to it
LoadStm(l) ==
    LET raw == LRange(l, 0, 0 - 1)
    IN  [i \in 1..Len(raw) |-> [role |-> raw[i].role, text |-> raw[i].text]]

(***************************************************************************)
(* Mem0.  A stored record is                                               *)
(*   [memory, user_id, run_id, owner, visibility, shared_with, source];    *)
(* a search hit is the record with its position in the store as its id.    *)
(* Memory.search filters on user_id, and on run_id only when one is given, *)
(* and returns the `limit` nearest records whatever their distance: a      *)
(* record whose text is the query is nearer than one whose text is not,    *)
(* and nothing else is known of the distances.                             *)
(***************************************************************************)
Hit(store, i) == [id |-> i] @@ store[i]

Candidates(store, user_id, run_id) ==
    {i \in 1..Len(store) :
        /\ store[i].user_id = user_id
        /\ (run_id = None \/ store[i].run_id = run_id)}

Min(a, b) == IF a < b THEN a ELSE b

\* the rankings a vector search may return: the records it keeps are any
\* `limit` of the candidates, none of another text kept instead of a record of
\* the query's text; records of the query's text come first.  The order among
\* the others is fixed here (store order): the program uses its hits as a
\* collection, apart from the order of the lines of the prompt.
Rankings(store, query, cand, limit) ==
    LET k     == Min(limit, Cardinality(cand))
        exact == {i \in cand : store[i].memory = query}
        Before(i, j) == \/ i \in exact /\ j \notin exact
                        \/ (i \in exact <=> j \in exact) /\ i < j
        Ordered(S) == CHOOSE r \in [1..k -> S] :
                          \A i, j \in 1..k : i < j => Before(r[i], r[j])
    IN  {Ordered(S) : S \in {T \in SUBSET cand :
                                /\ Cardinality(T) = k
                                /\ (T \subseteq exact \/ exact \subseteq T)}}

MemSearch(store, query, user_id, run_id, limit) ==
    {[i \in 1..Len(r) |-> Hit(store, r[i])] :
        r \in Rankings(store, query, Candidates(store, user_id, run_id), limit)}

\* visibility_filter=None (the test is Python truthiness, "" passes for None)
NoFilter == ""

\* _search_memories with a working store: the possible results
SearchMemoriesNoUser(store, query, user_id, run_id, visibility_filter, limit) ==
    LET all == {[i \in 1..Len(r) |-> Hit(store, r[i])] :
                   r \in Rankings(store, query, 1..Len(store), limit)}
        Keep(h) == h.visibility = visibility_filter
    IN  {IF visibility_filter # NoFilter THEN SelectSeq(res, Keep) ELSE res : res \in all}

SearchMemories(store, query, user_id, run_id, visibility_filter, limit) ==
    LET Keep(h) == h.visibility = visibility_filter
    IN  {IF visibility_filter # NoFilter THEN SelectSeq(res, Keep) ELSE res :
            res \in MemSearch(store, query, user_id, run_id, limit)}

\* the target list of _add_memory_for_users
TargetsRecipientScoped(owner_user_id, session_id, share, shared_with) ==
    <<[user_id |-> owner_user_id, run_id |-> session_id,
       visibility |-> IF ~share THEN "private" ELSE "shared"]>>
    \o (IF share /\ shared_with # <<>>
        THEN [i \in 1..Len(shared_with) |->
                 [user_id |-> shared_with[i], run_id |-> session_id, visibility |-> "shared"]]
        ELSE <<>>)

TargetsOwnerOnly(owner_user_id, session_id, share, shared_with) ==
    <<[user_id |-> owner_user_id, run_id |-> session_id,
       visibility |-> IF ~share THEN "private" ELSE "shared"]>>

Targets(owner_user_id, session_id, share, shared_with) ==
    <<[user_id |-> owner_user_id, run_id |-> session_id,
       visibility |-> IF ~share THEN "private" ELSE "shared"]>>
    \o (IF share /\ shared_with # <<>>
        THEN [i \in 1..Len(shared_with) |->
                 [user_id |-> shared_with[i], run_id |-> None, visibility |-> "shared"]]
        ELSE <<>>)

NewRecord(mem_item, target, owner_user_id, shared_with, source) ==
    [memory      |-> mem_item,
     user_id     |-> target.user_id,
     run_id      |-> target.run_id,
     owner       |-> owner_user_id,
     visibility  |-> target.visibility,
     shared_with |-> shared_with,
     source      |-> source]

\* The calls of the long-term store a turn makes, as <<site, i>>: the private
\* and the shared retrieval search of run, the dedup search and the mem.add
\* of the i-th target of an _add_memory_for_users call.  A set of these, the
\* calls that raise, is an input of the operations below.
RetrievalCalls == {<<"private", 0>>, <<"shared", 0>>}
AddCalls       == {<<site, i>> : site \in {"dedup", "write"}, i \in 1..2}
LtmCalls       == RetrievalCalls \cup AddCalls

\* _search_memories whose self.mem.search raises when `fails`: the outcome is
\* [raised, hits]; the except clause makes it return []
SearchMemoriesUnguarded(store, query, user_id, run_id, visibility_filter, limit, fails) ==
    IF fails
    THEN {[raised |-> TRUE, hits |-> <<>>]}
    ELSE {[raised |-> FALSE, hits |-> h] :
             h \in SearchMemories(store, query, user_id, run_id, visibility_filter, limit)}

SearchMemoriesTry(store, query, user_id, run_id, visibility_filter, limit, fails) ==
    IF fails
    THEN {[raised |-> FALSE, hits |-> <<>>]}
    ELSE {[raised |-> FALSE, hits |-> h] :
             h \in SearchMemories(store, query, user_id, run_id, visibility_filter, limit)}

\* one pass of the loop over the targets, for the i-th target: the stores it
\* may leave.  Whatever the try block raises, the except clause of the loop
\* catches it and the loop goes on.
AddTarget(store, mem_item, target, i, owner_user_id, shared_with, source, failing) ==
    {IF existing.raised THEN store
     ELSE IF existing.hits # <<>> THEN store
     ELSE IF <<"write", i>> \in failing THEN store
     ELSE Append(store, NewRecord(mem_item, target, owner_user_id, shared_with, source)) :
        existing \in SearchMemoriesTry(store, mem_item, target.user_id, target.run_id,
                                       target.visibility, 1, <<"dedup", i>> \in failing)}

RECURSIVE AddTargets(_, _, _, _, _, _, _, _)
AddTargets(store, mem_item, targets, i, owner_user_id, shared_with, source, failing) ==
    IF i > Len(targets)
    THEN {store}
    ELSE UNION {AddTargets(next, mem_item, targets, i + 1, owner_user_id, shared_with,
                           source, failing) :
                   next \in AddTarget(store, mem_item, targets[i], i, owner_user_id,
                                      shared_with, source, failing)}

\* _add_memory_for_users: the stores it may leave
AddMemoryForUsersWith(store, mem_item, owner_user_id, session_id, share, shared_with, source, failing) ==
    AddTargets(store, mem_item, Targets(owner_user_id, session_id, share, shared_with), 1,
               owner_user_id, shared_with, source, failing)

\* _add_memory_for_users with a working store
AddMemoryForUsers(store, mem_item, owner_user_id, session_id, share, shared_with, source) ==
    AddMemoryForUsersWith(store, mem_item, owner_user_id, session_id, share, shared_with,
                          source, {})

(***************************************************************************)
(* store_stm on the list of one thread.  A turn is [role, text, seq,       *)
(* share]; seq and share are auxiliary: the turn's position among the      *)
(* turns pushed to its thread, and the share argument it was recorded      *)
(* with.                                                                   *)
(* The result is the list the call leaves and the pair it hands to         *)
(* _add_memory_for_users (<<>> when it hands none).                        *)
(***************************************************************************)
StoreStmPushOnly(l, payload, w) == [list |-> RPush(l, payload), pair |-> <<>>]

StoreStmNoSecondPop(l, payload, w) ==
    LET l1 == RPush(l, payload)
    IN  IF LLen(l1) > w
        THEN LET first    == LPopValue(l1)[1]
                 l2       == LPopRest(l1)
                 next_msg == LIndexHead(l2)
             IN  IF first.role = "human" /\ next_msg # <<>> /\ next_msg[1].role = "assistant"
                 THEN [list |-> LTrim(l2, 0 - w, 0 - 1), pair |-> <<first, next_msg[1]>>]
                 ELSE [list |-> LTrim(l2, 0 - w, 0 - 1), pair |-> <<>>]
        ELSE [list |-> LTrim(l1, 0 - w, 0 - 1), pair |-> <<>>]

StoreStmPeekSecond(l, payload, w) ==
    LET l1 == RPush(l, payload)
    IN  IF LLen(l1) > w
        THEN LET first == LPopValue(l1)[1]
                 l2    == LPopRest(l1)
             IN  IF first.role = "human" /\ Len(l2) >= 2 /\ l2[2].role = "assistant"
                 THEN [list |-> LTrim(<<l2[1]>> \o SubSeq(l2, 3, Len(l2)), 0 - w, 0 - 1),
                       pair |-> <<first, l2[2]>>]
                 ELSE [list |-> LTrim(l2, 0 - w, 0 - 1), pair |-> <<>>]
        ELSE [list |-> LTrim(l1, 0 - w, 0 - 1), pair |-> <<>>]

StoreStmDropOldest(l, payload, w) ==
    LET l1 == RPush(l, payload)
    IN  IF LLen(l1) > w
        THEN [list |-> LTrim(LPopRest(l1), 0 - w, 0 - 1), pair |-> <<>>]
        ELSE [list |-> LTrim(l1, 0 - w, 0 - 1), pair |-> <<>>]

StoreStmAnyPair(l, payload, w) ==
    LET l1 == RPush(l, payload)
    IN  IF LLen(l1) > w
        THEN LET first    == LPopValue(l1)[1]
                 l2       == LPopRest(l1)
                 next_msg == LIndexHead(l2)
             IN  IF next_msg # <<>>
                 THEN [list |-> LTrim(LPopRest(l2), 0 - w, 0 - 1),
                       pair |-> <<first, LPopValue(l2)[1]>>]
                 ELSE [list |-> LTrim(l2, 0 - w, 0 - 1), pair |-> <<>>]
        ELSE [list |-> LTrim(l1, 0 - w, 0 - 1), pair |-> <<>>]

StoreStm(l, payload, w) ==
    LET l1          == RPush(l, payload)
        current_len == LLen(l1)
    IN  IF current_len > w
        THEN LET first    == LPopValue(l1)[1]
                 l2       == LPopRest(l1)
                 next_msg == LIndexHead(l2)
             IN  IF first.role = "human" /\ next_msg # <<>> /\ next_msg[1].role = "assistant"
                 THEN [list |-> LTrim(LPopRest(l2), 0 - w, 0 - 1),
                       pair |-> <<first, LPopValue(l2)[1]>>]
                 ELSE [list |-> LTrim(l2, 0 - w, 0 - 1), pair |-> <<>>]
        ELSE [list |-> LTrim(l1, 0 - w, 0 - 1), pair |-> <<>>]

\* the user and session store_stm migrates for
Resolved(thread_id, user_id, session_id) ==
    IF Falsy(user_id) \/ Falsy(session_id) THEN SplitThread(thread_id)
    ELSE <<user_id, session_id>>

(***************************************************************************)
(* The memory operations as actions.  Calls on the memory manager are      *)
(* sequential here: one call runs to its end before the next starts.       *)
(***************************************************************************)
Other(u) == CHOOSE v \in UserIds : v # u

\* the share arguments a call of user u is tried with
ShareArgs(u) == {[share |-> FALSE, shared_with |-> <<>>],
                 [share |-> TRUE,  shared_with |-> <<Other(u)>>]}

PushedTotal == LET RECURSIVE Sum(_)
                   Sum(S) == IF S = {} THEN 0
                             ELSE LET t == CHOOSE x \in S : TRUE
                                  IN  pushed[t] + Sum(S \ {t})
               IN  Sum(AllThreadIds)

Written(old, new) == SubSeq(new, Len(old) + 1, Len(new))

\* store_stm with its migration: the (list, store) pairs a call may leave
StoreStmOutcomesWith(l, store, payload, w, thread_id, user_id, session_id, share, shared_with, failing) ==
    LET r   == StoreStm(l, payload, w)
        who == Resolved(thread_id, user_id, session_id)
    IN  IF r.pair = <<>>
        THEN {[list |-> r.list, store |-> store, pair |-> r.pair]}
        ELSE {[list |-> r.list, store |-> out, pair |-> r.pair] :
                 out \in AddMemoryForUsersWith(store,
                                               MemItem(r.pair[1].text, r.pair[2].text),
                                               who[1], who[2], share, shared_with,
                                               "stm_eviction", failing)}

\* the same with a working long-term store
StoreStmOutcomes(l, store, payload, w, thread_id, user_id, session_id, share, shared_with) ==
    StoreStmOutcomesWith(l, store, payload, w, thread_id, user_id, session_id, share,
                         shared_with, {})

\* store_stm(thread_id, role, text, window, user_id, session_id, share, shared_with)
store_stm(thread_id, role, text, user_id, session_id, share, shared_with) ==
    /\ PushedTotal < MaxTurns
    /\ LET payload == [role |-> role, text |-> text, seq |-> pushed[thread_id] + 1,
                       share |-> share]
       IN  \E o \in StoreStmOutcomes(stm[thread_id], ltm, payload, window, thread_id,
                                     user_id, session_id, share, shared_with) :
               /\ Len(o.store) <= MaxLtm
               /\ stm' = [stm EXCEPT ![thread_id] = o.list]
               /\ ltm' = o.store
               /\ lastOp' = [op |-> "store_stm", thread |-> thread_id, turn |-> payload,
                             over |-> LLen(RPush(stm[thread_id], payload)) > window,
                             pair |-> o.pair, wrote |-> Written(ltm, o.store)]
    /\ pushed' = [pushed EXCEPT ![thread_id] = @ + 1]
    /\ UNCHANGED <<window, proc, dispVars>>

RecordTurn ==
    \E t \in ThreadIds, role \in Roles, text \in Texts :
      \E sh \in ShareArgs(SplitThread(t)[1]) :
        store_stm(t, role, text, None, None, sh.share, sh.shared_with)

\* the texts of the eviction scenario: the turns of a thread are Q1, A1, Q2, ...
ScenarioWords == <<"Q1", "A1", "Q2", "A2", "Q3", "A3", "Q4", "A4">>

\* record_turn calls that alternate on each thread, human first
RecordAlternating ==
    \E t \in ThreadIds :
      \E sh \in ShareArgs(SplitThread(t)[1]) :
        /\ pushed[t] < Len(ScenarioWords)
        /\ store_stm(t, IF pushed[t] % 2 = 0 THEN "human" ELSE "assistant",
                     <<ScenarioWords[pushed[t] + 1]>>, None, None, sh.share, sh.shared_with)

\* the memory items direct calls of _add_memory_for_users are tried with
DirectItems == {MemItem(<<"x">>, <<"y">>), MemItem(<<"y">>, <<"x">>)}

\* auxiliary: the direct add_memory calls made so far, counted up to MaxAdds
AddsSoFar == IF lastOp.op = "add_memory" THEN lastOp.calls ELSE 0

\* _add_memory_for_users(mem_item, owner_user_id, session_id, share, shared_with, source),
\* called while the calls `failing` of the long-term store raise
add_memory_with(mem_item, owner_user_id, session_id, share, shared_with, source, failing) ==
    /\ \E out \in AddMemoryForUsersWith(ltm, mem_item, owner_user_id, session_id, share,
                                         shared_with, source, failing) :
           /\ Len(out) <= MaxLtm
           /\ ltm' = out
    /\ lastOp' = [op |-> "add_memory",
                  args |-> <<mem_item, owner_user_id, session_id, share, shared_with>>,
                  failing |-> failing,
                  calls |-> Min(AddsSoFar + 1, MaxAdds),
                  wrote |-> Written(ltm, ltm'),
                  repeat |-> /\ lastOp.op = "add_memory"
                             /\ lastOp.args = <<mem_item, owner_user_id, session_id,
                                                share, shared_with>>]
    /\ UNCHANGED <<window, stm, pushed, proc, dispVars>>

\* the same with a working store
add_memory(mem_item, owner_user_id, session_id, share, shared_with, source) ==
    add_memory_with(mem_item, owner_user_id, session_id, share, shared_with, source, {})

AddMemory ==
    \E item \in DirectItems, u \in UserIds, s \in SessionIds :
      \E sh \in ShareArgs(u) :
        add_memory(item, u, s, sh.share, sh.shared_with, "immediate_share")

AddMemoryDegraded ==
    /\ AddsSoFar < MaxAdds
    /\ \E item \in DirectItems, u \in UserIds, s \in SessionIds :
         \E sh \in ShareArgs(u) :
         \E failing \in SUBSET {c \in AddCalls :
                                  c[2] <= Len(Targets(u, s, sh.share, sh.shared_with))} :
           add_memory_with(item, u, s, sh.share, sh.shared_with, "immediate_share", failing)

\* the final texts the agent runtime is tried with
Responses == {<<"r">>}

\* private_hits + [h for h in shared_hits if h not in private_hits]
AllHits(private_hits, shared_hits) ==
    LET Fresh(h) == \A i \in 1..Len(private_hits) : private_hits[i] # h
    IN  private_hits \o SelectSeq(shared_hits, Fresh)

\* stm_strings: f"Question:{text}" of the human turns and f"Agent Answer:{text}"
\* of the assistant turns of the loaded list
StmStrings(stm_history) ==
    {<<"Question:">> \o stm_history[i].text :
        i \in {j \in 1..Len(stm_history) : stm_history[j].role = "human"}}
    \cup {<<"Agent Answer:">> \o stm_history[i].text :
             i \in {j \in 1..Len(stm_history) : stm_history[j].role = "assistant"}}

\* f"- {shared_marker} {mem_text}"
FormatHit(item, user_id) ==
    <<"- ">>
    \o (IF item.visibility = "shared"
        THEN <<"[shared from ">> \o item.owner \o <<"]">>
        ELSE <<"[private]">>)
    \o <<" ">> \o item.memory

NoMemoryBlock == << <<"No relevant memory retrieved.">> >>

\* memory_block, as the sequence of its lines: the hits whose text is not in
\* stm_strings, formatted
MemoryBlock(all_hits, stm_history, user_id) ==
    LET Fresh(item) == item.memory \notin StmStrings(stm_history)
        kept        == SelectSeq(all_hits, Fresh)
        formatted_hits == [i \in 1..Len(kept) |-> FormatHit(kept[i], user_id)]
    IN  IF all_hits # <<>> /\ formatted_hits # <<>> THEN formatted_hits ELSE NoMemoryBlock

\* how the agent runtime behaves when a turn invokes it
Runtimes == {"answers", "raises"}

\* the Redis command of a turn that raises (a lost connection): none, the
\* LRANGE of load_stm, the RPUSH of the first or of the second store_stm call
RedisFaults == {"none", "lrange", "rpush_human", "rpush_assistant"}

\* what run leaves in lastOp
RunOp(message, thread_id, user_id, share, shared_with, failing, redis_fault, runtime, result, private_hits, shared_hits, memory_block, evicted, wrote) ==
    [op |-> "run", message |-> message, thread |-> thread_id, user |-> user_id,
     memory_block |-> memory_block,
     share |-> share, shared_with |-> shared_with, degraded |-> failing # {}, redis_fault |-> redis_fault,
     runtime |-> runtime, result |-> result, private_hits |-> private_hits,
     shared_hits |-> shared_hits, evicted |-> evicted, wrote |-> wrote]

\* run(message, thread_id, share=share, shared_with=shared_with): retrieval,
\* load_stm, the memory block, the agent runtime, the two store_stm calls with the default
\* window, and the immediate share.  Whatever the try block raises, run
\* returns the error payload.  `failing`, `redis_fault` and `runtime` are the
\* turn's environment: the calls of the long-term store that raise, the
\* Redis command that raises, and what the agent runtime does.
run_turn(message, thread_id, share, shared_with, failing, redis_fault, runtime) ==
    IF ~HasSep(thread_id)
    THEN \* the unpacking of thread_id.split("_", 1) raises
         /\ lastOp' = RunOp(message, thread_id, None, share, shared_with, failing, redis_fault, runtime,
                            "error", <<>>, <<>>, <<>>, <<>>, <<>>)
         /\ UNCHANGED <<window, stm, pushed, ltm, proc, dispVars>>
    ELSE
    LET who        == SplitThread(thread_id)
        user_id    == who[1]
        session_id == who[2]
        human      == [role |-> "human", text |-> message,
                       seq |-> pushed[thread_id] + 1, share |-> share]
    IN  \E p \in SearchMemoriesTry(ltm, message, user_id, session_id, NoFilter, 3,
                                   <<"private", 0>> \in failing),
           q \in SearchMemoriesTry(ltm, message, user_id, None, "shared", 3,
                                   <<"shared", 0>> \in failing) :
          LET memory_block == MemoryBlock(AllHits(p.hits, q.hits),
                                          LoadStm(stm[thread_id]), user_id)
          IN
          IF \/ p.raised \/ q.raised
             \/ redis_fault = "lrange"
             \/ runtime = "raises"
             \/ redis_fault = "rpush_human"
          THEN \* raised before anything was stored
               /\ lastOp' = RunOp(message, thread_id, user_id, share, shared_with, failing, redis_fault,
                                  runtime, "error", p.hits, q.hits,
                                  IF redis_fault = "lrange" THEN <<>> ELSE memory_block,
                                  <<>>, <<>>)
               /\ UNCHANGED <<window, stm, pushed, ltm, proc, dispVars>>
          ELSE
          \E final_text \in Responses :
          \E o1 \in StoreStmOutcomesWith(stm[thread_id], ltm, human, DefaultWindow,
                                         thread_id, user_id, session_id, share,
                                         shared_with, failing) :
            /\ PushedTotal + 2 <= 2 * MaxRuns
            /\ UNCHANGED <<window, proc, dispVars>>
            /\ IF redis_fault = "rpush_assistant"
               THEN \* the second store_stm raises at its first command
                    /\ Len(o1.store) <= MaxLtm
                    /\ stm' = [stm EXCEPT ![thread_id] = o1.list]
                    /\ ltm' = o1.store
                    /\ pushed' = [pushed EXCEPT ![thread_id] = @ + 1]
                    /\ lastOp' = RunOp(message, thread_id, user_id, share, shared_with, failing,
                                       redis_fault, runtime, "error", p.hits, q.hits,
                                       memory_block, <<o1.pair>>,
                                       Written(ltm, o1.store))
               ELSE
               LET assistant == [role |-> "assistant", text |-> final_text,
                                 seq |-> pushed[thread_id] + 2, share |-> share]
               IN  \E o2 \in StoreStmOutcomesWith(o1.list, o1.store, assistant,
                                                  DefaultWindow, thread_id, user_id,
                                                  session_id, share, shared_with,
                                                  failing) :
                   \E out \in (IF share
                               THEN AddMemoryForUsersWith(o2.store,
                                                          MemItem(message, final_text),
                                                          user_id, session_id, share,
                                                          shared_with, "immediate_share",
                                                          failing)
                               ELSE {o2.store}) :
                       /\ Len(out) <= MaxLtm
                       /\ stm' = [stm EXCEPT ![thread_id] = o2.list]
                       /\ ltm' = out
                       /\ pushed' = [pushed EXCEPT ![thread_id] = @ + 2]
                       /\ lastOp' = RunOp(message, thread_id, user_id, share, shared_with, failing,
                                          redis_fault, runtime, "response", p.hits,
                                          q.hits, memory_block,
                                          <<o1.pair, o2.pair>>, Written(ltm, out))

\* a turn whose stores work, whatever the agent runtime does
run(message, thread_id, share, shared_with) ==
    \E runtime \in Runtimes :
        run_turn(message, thread_id, share, shared_with, {}, "none", runtime)

\* the turns of a conversation whose stores and agent runtime work
Run ==
    \E t \in ThreadIds, message \in Texts :
      \E sh \in ShareArgs(SplitThread(t)[1]) :
        run_turn(message, t, sh.share, sh.shared_with, {}, "none", "answers")

\* main.py run_agent(user_id, session_id, request): 400 for an empty message,
\* else agent.run(message=request.message, thread_id=thread_id) with the
\* thread id built from the two query parameters
run_agent(user_id, session_id, message) ==
    IF message = <<>>
    THEN /\ lastOp' = [op |-> "run_agent", status |-> 400]
         /\ UNCHANGED <<window, stm, pushed, ltm, proc, dispVars>>
    ELSE run(message,
             IF ~Falsy(user_id) /\ ~Falsy(session_id)
             THEN ThreadIdOf(user_id, session_id) ELSE <<"default">>,
             FALSE, <<>>)

\* the /agent requests: the message is a text or empty
RunAgent ==
    \E user_id \in ReqUserIds, session_id \in ReqSessionIds, message \in {<<"x">>, <<>>} :
        run_agent(user_id, session_id, message)

\* the sets of failing store calls a turn is tried with: none, any one call,
\* or all of them
FaultPatterns == {{}} \cup {{c} : c \in LtmCalls} \cup {LtmCalls}

\* the environments a turn is tried in: the store calls of one pattern fail,
\* or one Redis command raises, or the agent runtime raises, or nothing fails
Environments ==
    {[failing |-> f, redis_fault |-> "none", runtime |-> "answers"] : f \in FaultPatterns}
    \cup {[failing |-> {}, redis_fault |-> r, runtime |-> "answers"] : r \in RedisFaults}
    \cup {[failing |-> {}, redis_fault |-> "none", runtime |-> "raises"]}

\* a turn of one thread in an environment that may fail
RunDegraded ==
    /\ PushedTotal + 2 <= 2 * MaxFaultyRuns
    /\ \E t \in {ThreadIdOf(ua, <<"s">>)}, message \in {<<"x">>}, env \in Environments :
         \E sh \in ShareArgs(SplitThread(t)[1]) :
           run_turn(message, t, sh.share, sh.shared_with, env.failing, env.redis_fault,
                    env.runtime)

(***************************************************************************)
(* Concurrent store_stm calls on one thread.  The calls hold no lock: each  *)
(* Redis command is atomic, and the commands of two calls interleave.  The  *)
(* migration of a popped pair is one step here.  proc[c] holds the place    *)
(* and the locals of caller c's call.                                       *)
(***************************************************************************)
Callers == {"c1", "c2"}

Idle == [pc |-> "idle"]

\* the thread the concurrent calls record turns on
ConcThread == ThreadIdOf(ua, <<"s">>)

\* what a step of a concurrent store_stm call leaves in lastOp: how the call
\* goes on ("migrated", "raised" or "returned"), the pair it handed to
\* _add_memory_for_users and the records that wrote
StmOp(c, end, pair, wrote) ==
    [op |-> "store_stm", caller |-> c, thread |-> ConcThread, end |-> end,
     pair |-> pair, wrote |-> wrote]

\* store_stm is called: payload = json.dumps(...), self.redis.rpush(key, payload)
CallStoreStm(c) ==
    /\ proc[c].pc = "idle"
    /\ PushedTotal < MaxTurns
    /\ \E role \in Roles, text \in {<<"x">>} :
          LET payload == [role |-> role, text |-> text, seq |-> pushed[ConcThread] + 1,
                          share |-> FALSE]
          IN  /\ stm' = [stm EXCEPT ![ConcThread] = RPush(@, payload)]
              /\ proc' = [proc EXCEPT ![c] = [pc |-> "llen", payload |-> payload]]
    /\ pushed' = [pushed EXCEPT ![ConcThread] = @ + 1]
    /\ UNCHANGED <<window, ltm, lastOp, dispVars>>

\* current_len = self.redis.llen(key), and the test current_len > window
Llen(c) ==
    /\ proc[c].pc = "llen"
    /\ proc' = [proc EXCEPT ![c].pc = IF LLen(stm[ConcThread]) > window
                                      THEN "lpop_first" ELSE "ltrim"]
    /\ UNCHANGED <<window, stm, pushed, ltm, lastOp, dispVars>>

\* first_raw = self.redis.lpop(key); first = json.loads(first_raw), which
\* raises TypeError when the list was empty (first_raw is None)
LpopFirst(c) ==
    /\ proc[c].pc = "lpop_first"
    /\ LET first_raw == LPopValue(stm[ConcThread])
       IN  IF first_raw = <<>>
           THEN /\ proc' = [proc EXCEPT ![c] = Idle]
                /\ lastOp' = StmOp(c, "raised", <<>>, <<>>)
                /\ stm' = stm
           ELSE /\ proc' = [proc EXCEPT ![c] = [pc |-> "lindex", first |-> first_raw[1]]]
                /\ lastOp' = lastOp
                /\ stm' = [stm EXCEPT ![ConcThread] = LPopRest(@)]
    /\ UNCHANGED <<window, pushed, ltm, dispVars>>

\* next_raw = self.redis.lindex(key, 0), and the test of the pair
Lindex(c) ==
    /\ proc[c].pc = "lindex"
    /\ LET next_msg == LIndexHead(stm[ConcThread])
       IN  proc' = [proc EXCEPT ![c].pc =
                       IF /\ proc[c].first.role = "human"
                          /\ next_msg # <<>>
                          /\ next_msg[1].role = "assistant"
                       THEN "lpop_second" ELSE "ltrim"]
    /\ UNCHANGED <<window, stm, pushed, ltm, lastOp, dispVars>>

\* second_raw = self.redis.lpop(key); second = json.loads(second_raw), which
\* raises TypeError when the list was empty; then the migration of the pair
LpopSecond(c) ==
    /\ proc[c].pc = "lpop_second"
    /\ LET second_raw == LPopValue(stm[ConcThread])
           who        == SplitThread(ConcThread)
       IN  IF second_raw = <<>>
           THEN /\ proc' = [proc EXCEPT ![c] = Idle]
                /\ lastOp' = StmOp(c, "raised", <<>>, <<>>)
                /\ UNCHANGED <<stm, ltm>>
           ELSE /\ proc' = [proc EXCEPT ![c] = [pc |-> "ltrim"]]
                /\ stm' = [stm EXCEPT ![ConcThread] = LPopRest(@)]
                /\ \E out \in AddMemoryForUsers(ltm, MemItem(proc[c].first.text,
                                                              second_raw[1].text),
                                                 who[1], who[2], FALSE, <<>>,
                                                 "stm_eviction") :
                      /\ Len(out) <= MaxLtm
                      /\ ltm' = out
                      /\ lastOp' = StmOp(c, "migrated", <<proc[c].first, second_raw[1]>>,
                                         Written(ltm, out))
    /\ UNCHANGED <<window, pushed, dispVars>>

\* self.redis.ltrim(key, -window, -1), and the call returns
Ltrim(c) ==
    /\ proc[c].pc = "ltrim"
    /\ stm' = [stm EXCEPT ![ConcThread] = LTrim(@, 0 - window, 0 - 1)]
    /\ proc' = [proc EXCEPT ![c] = Idle]
    /\ lastOp' = StmOp(c, "returned", <<>>, <<>>)
    /\ UNCHANGED <<window, pushed, ltm, dispVars>>

(***************************************************************************)
(* Concurrent _add_memory_for_users calls.  The calls hold no lock: the     *)
(* dedup search and the mem.add of a target are two calls of the store,    *)
(* and the calls of two callers interleave.  proc[c] holds the arguments,  *)
(* the target list and the index i of the target the loop is at.           *)
(***************************************************************************)
\* what a pass of the loop of caller c leaves in lastOp: the records it wrote
AddOp(c, wrote) == [op |-> "add_memory_for_users", caller |-> c, wrote |-> wrote]

\* the loop of caller c goes to its next target, or the call returns
NextTarget(c) ==
    IF proc[c].i < Len(proc[c].targets)
    THEN [proc[c] EXCEPT !.pc = "dedup", !.i = @ + 1]
    ELSE Idle

\* _add_memory_for_users is called: the target list and the metadata are built
CallAddMemoryForUsers(c) ==
    /\ proc[c].pc = "idle"
    /\ \E item \in {MemItem(<<"x">>, <<"y">>)}, u \in {ua}, s \in SessionIds :
         \E sh \in ShareArgs(u) :
            proc' = [proc EXCEPT ![c] =
                        [pc |-> "dedup", i |-> 1, mem_item |-> item, owner_user_id |-> u,
                         shared_with |-> sh.shared_with,
                         targets |-> Targets(u, s, sh.share, sh.shared_with)]]
    /\ UNCHANGED <<window, stm, pushed, ltm, lastOp, dispVars>>

\* existing = self._search_memories(query=mem_item, ..., limit=1); if existing: continue
DedupSearch(c) ==
    /\ proc[c].pc = "dedup"
    /\ LET target == proc[c].targets[proc[c].i]
       IN  \E existing \in SearchMemories(ltm, proc[c].mem_item, target.user_id,
                                          target.run_id, target.visibility, 1) :
              IF existing # <<>>
              THEN /\ proc' = [proc EXCEPT ![c] = NextTarget(c)]
                   /\ lastOp' = AddOp(c, <<>>)
              ELSE /\ proc' = [proc EXCEPT ![c].pc = "add"]
                   /\ lastOp' = lastOp
    /\ UNCHANGED <<window, stm, pushed, ltm, dispVars>>

\* self.mem.add(messages=mem_item, user_id=..., run_id=..., metadata=...)
MemAdd(c) ==
    /\ proc[c].pc = "add"
    /\ Len(ltm) < MaxLtm
    /\ LET rec == NewRecord(proc[c].mem_item, proc[c].targets[proc[c].i],
                            proc[c].owner_user_id, proc[c].shared_with, "immediate_share")
       IN  /\ ltm' = Append(ltm, rec)
           /\ lastOp' = AddOp(c, <<rec>>)
    /\ proc' = [proc EXCEPT ![c] = NextTarget(c)]
    /\ UNCHANGED <<window, stm, pushed, dispVars>>

(***************************************************************************)
(* The dispatcher.  Each worker handles one request at a time; route,      *)
(* proxy and ensure_agent hold no lock, and the workers of a deployment    *)
(* (and the Docker daemon they share) interleave at the Docker API calls   *)
(* and at the forwarded HTTP call.                                          *)
(***************************************************************************)
Workers == {"w1", "w2"}

\* max_retries, and the seconds slept between two attempts
MaxRetries == 3
RetryDelay == 2

\* the requests the workers are tried with: the session_id query parameter
\* (missing, empty, or one of two ids) and the JSON body
ReqSessions == {None, <<>>, <<"s">>, <<"t">>}
Payloads    == {"message", "empty", "missing"}

NoReq == [user |-> None, sess |-> None, payload |-> "none"]

\* auxiliary record of one handler: the status it answered (0: none yet), the
\* forwarding attempts it made, the seconds it slept between attempts, the
\* outcome of its last attempt, the status the sandbox answered (0: none),
\* how ensure_agent ended, the name it returned (None: none yet), whether it
\* made a Docker API call, and whether every attempt so far ended in a
\* connection error or a read timeout
NoDisp == [status |-> 0, attempts |-> 0, slept |-> 0, last |-> "none", upstream |-> 0,
           ensure |-> "none", address |-> None, docker |-> FALSE, transient |-> TRUE]

\* name=f"agent-{user}"
AgentName(user) == <<"agent-">> \o user

Named(cs, name) == {i \in 1..Len(cs) : cs[i].name = name}

\* c.containers.run(AGENT_IMAGE, name=name, detach=True, ...): Docker refuses a
\* name that is in use (409 Conflict, docker.errors.APIError); a container is
\* [name, status, user], user being auxiliary: whose request created it
RunAgentContainerUnnamed(cs, name, user) ==
    [ok |-> TRUE,
     cs |-> Append(cs, [name |-> <<"generated">>, status |-> "running", user |-> user])]

RunAgentContainer(cs, name, user) ==
    IF Named(cs, name) # {}
    THEN [ok |-> FALSE, cs |-> cs]
    ELSE [ok |-> TRUE,
          cs |-> Append(cs, [name |-> name, status |-> "running", user |-> user])]

\* the except clause of proxy's loop, for the exception an attempt raised:
\* "retry" (sleep and continue) or "raise"
AfterErrorOffByOne(error, i) ==
    IF error \in {"ConnectError", "ReadTimeout"}
    THEN (IF i < MaxRetries THEN "retry" ELSE "raise")
    ELSE "raise"

AfterErrorCatchAll(error, i) ==
    IF i < MaxRetries - 1 THEN "retry" ELSE "raise"

AfterError(error, i) ==
    IF error \in {"ConnectError", "ReadTimeout"}
    THEN (IF i < MaxRetries - 1 THEN "retry" ELSE "raise")
    ELSE "raise"

\* main.py run_agent: the statuses the sandbox may answer a body with
SandboxStatus(payload) ==
    CASE payload = "missing" -> {422}
      [] payload = "empty"   -> {400}
      [] OTHER               -> {200, 503}

\* route's check of the session_id query parameter
SessionOkNoneOnly(sess) == sess # None

SessionOk(sess) == ~Falsy(sess)

\* route, up to the first Docker API call of ensure_network
Receive(w) ==
    /\ pc[w] = "idle"
    /\ \E user \in UserIds, sess \in ReqSessions, payload \in Payloads :
          /\ req' = [req EXCEPT ![w] = [user |-> user, sess |-> sess, payload |-> payload]]
          /\ IF SessionOk(sess)
             THEN /\ pc' = [pc EXCEPT ![w] = "net_list"]
                  /\ disp' = [disp EXCEPT ![w] = NoDisp]
             ELSE /\ pc' = [pc EXCEPT ![w] = "done"]
                  /\ disp' = [disp EXCEPT ![w] = [NoDisp EXCEPT !.status = 400]]
    /\ attempt' = [attempt EXCEPT ![w] = 0]
    /\ UNCHANGED <<networks, containers, memVars>>

\* ensure_network: c.networks.list() and the membership test
NetList(w) ==
    /\ pc[w] = "net_list"
    /\ pc' = [pc EXCEPT ![w] = IF networks = 0 THEN "net_create" ELSE "get"]
    /\ disp' = [disp EXCEPT ![w].docker = TRUE]
    /\ UNCHANGED <<networks, containers, req, attempt, memVars>>

\* c.networks.create(NETWORK_NAME, driver="bridge") when n networks of that
\* name exist: the numbers of networks it may leave, and whether it raised.
\* No check_duplicate is passed: a daemon that does not check names creates
\* a second network of the name; one that checks refuses it (409 Conflict,
\* docker.errors.APIError).
NetworksCreate(n) ==
    IF n = 0
    THEN {[ok |-> TRUE, networks |-> 1]}
    ELSE {[ok |-> TRUE, networks |-> n + 1], [ok |-> FALSE, networks |-> n]}

\* ensure_network: the create call; its APIError leaves ensure_agent and
\* proxy and becomes route's 502
NetCreate(w) ==
    /\ pc[w] = "net_create"
    /\ \E r \in NetworksCreate(networks) :
          /\ networks' = r.networks
          /\ IF r.ok
             THEN /\ pc' = [pc EXCEPT ![w] = "get"]
                  /\ disp' = [disp EXCEPT ![w].docker = TRUE]
             ELSE /\ pc' = [pc EXCEPT ![w] = "done"]
                  /\ disp' = [disp EXCEPT ![w].docker = TRUE, ![w].ensure = "net_conflict",
                                          ![w].status = 502]
    /\ UNCHANGED <<containers, req, attempt, memVars>>

\* ensure_agent: c.containers.get(name) and the test of the status it read
Get(w) ==
    /\ pc[w] = "get"
    /\ LET found == Named(containers, AgentName(req[w].user))
       IN  IF found = {}
           THEN /\ pc' = [pc EXCEPT ![w] = "run"]
                /\ disp' = [disp EXCEPT ![w].docker = TRUE]
           ELSE IF \E i \in found : containers[i].status # "running"
           THEN /\ pc' = [pc EXCEPT ![w] = "start"]
                /\ disp' = [disp EXCEPT ![w].docker = TRUE]
           ELSE /\ pc' = [pc EXCEPT ![w] = "post"]
                /\ disp' = [disp EXCEPT ![w].docker = TRUE, ![w].ensure = "returned",
                                        ![w].address = AgentName(req[w].user)]
    /\ UNCHANGED <<networks, containers, req, attempt, memVars>>

StartSkipped(w) ==
    /\ pc[w] = "start"
    /\ pc' = [pc EXCEPT ![w] = "post"]
    /\ disp' = [disp EXCEPT ![w].docker = TRUE, ![w].ensure = "returned",
                            ![w].address = AgentName(req[w].user)]
    /\ UNCHANGED <<networks, containers, req, attempt, memVars>>

\* ensure_agent: cont.start() (no error when the container runs already)
Start(w) ==
    /\ pc[w] = "start"
    /\ containers' = [i \in 1..Len(containers) |->
                         IF containers[i].name = AgentName(req[w].user)
                         THEN [containers[i] EXCEPT !.status = "running"]
                         ELSE containers[i]]
    /\ pc' = [pc EXCEPT ![w] = "post"]
    /\ disp' = [disp EXCEPT ![w].docker = TRUE, ![w].ensure = "returned",
                            ![w].address = AgentName(req[w].user)]
    /\ UNCHANGED <<networks, req, attempt, memVars>>

\* ensure_agent: c.containers.run(...); the APIError of a name conflict
\* leaves ensure_agent and proxy and becomes route's 502
Create(w) ==
    /\ pc[w] = "run"
    /\ Len(containers) < MaxContainers
    /\ LET r == RunAgentContainer(containers, AgentName(req[w].user), req[w].user)
       IN  /\ containers' = r.cs
           /\ IF r.ok
              THEN /\ pc' = [pc EXCEPT ![w] = "sleep"]
                   /\ disp' = [disp EXCEPT ![w].docker = TRUE]
              ELSE /\ pc' = [pc EXCEPT ![w] = "done"]
                   /\ disp' = [disp EXCEPT ![w].docker = TRUE, ![w].ensure = "conflict",
                                           ![w].status = 502]
    /\ UNCHANGED <<networks, req, attempt, memVars>>

\* ensure_agent: time.sleep(5) after the run, and return name
SleepReturn(w) ==
    /\ pc[w] = "sleep"
    /\ pc' = [pc EXCEPT ![w] = "post"]
    /\ disp' = [disp EXCEPT ![w].ensure = "returned",
                            ![w].address = AgentName(req[w].user)]
    /\ UNCHANGED <<networks, containers, req, attempt, memVars>>

\* what one forwarding attempt may end in: an exception of the POST, or the
\* status of the sandbox's answer when the user's container runs
Outcomes(w) ==
    {[error |-> e, upstream |-> 0] : e \in {"ConnectError", "ReadTimeout", "OtherError"}}
    \cup (IF \E i \in Named(containers, AgentName(req[w].user)) :
                 containers[i].status = "running"
          THEN {[error |-> IF st >= 400 THEN "HTTPStatusError" ELSE "none", upstream |-> st] :
                   st \in SandboxStatus(req[w].payload)}
          ELSE {})

\* proxy: one pass of the retry loop (the POST, raise_for_status, the except
\* clause and its sleep), and route's conversion of an exception into 502
Post(w) ==
    /\ pc[w] = "post"
    /\ \E o \in Outcomes(w) :
          LET d == [disp[w] EXCEPT !.attempts = @ + 1, !.last = o.error,
                                   !.upstream = o.upstream,
                                   !.transient = @ /\ o.error \in {"ConnectError",
                                                                   "ReadTimeout"}]
          IN  IF o.error = "none"
              THEN /\ pc' = [pc EXCEPT ![w] = "done"]
                   /\ disp' = [disp EXCEPT ![w] = [d EXCEPT !.status = 200]]
                   /\ attempt' = attempt
              ELSE IF AfterError(o.error, attempt[w]) = "retry"
              THEN IF attempt[w] + 1 < MaxRetries
                   THEN /\ pc' = pc
                        /\ disp' = [disp EXCEPT ![w] = [d EXCEPT !.slept = @ + RetryDelay]]
                        /\ attempt' = [attempt EXCEPT ![w] = @ + 1]
                   ELSE \* the loop ends: proxy returns None, route answers 200
                        /\ pc' = [pc EXCEPT ![w] = "done"]
                        /\ disp' = [disp EXCEPT ![w] = [d EXCEPT !.slept = @ + RetryDelay,
                                                                 !.status = 200]]
                        /\ attempt' = attempt
              ELSE /\ pc' = [pc EXCEPT ![w] = "done"]
                   /\ disp' = [disp EXCEPT ![w] = [d EXCEPT !.status = 502]]
                   /\ attempt' = attempt
    /\ UNCHANGED <<networks, containers, req, memVars>>

\* the response is sent; the worker takes the next request
Finish(w) ==
    /\ pc[w] = "done"
    /\ pc' = [pc EXCEPT ![w] = "idle"]
    /\ req' = [req EXCEPT ![w] = NoReq]
    /\ disp' = [disp EXCEPT ![w] = NoDisp]
    /\ attempt' = [attempt EXCEPT ![w] = 0]
    /\ UNCHANGED <<networks, containers, memVars>>

\* a running sandbox stops (it crashes, or is stopped from outside)
ContainerStops ==
    /\ \E i \in 1..Len(containers) :
          /\ containers[i].status = "running"
          /\ containers' = [containers EXCEPT ![i].status = "exited"]
    /\ UNCHANGED <<networks, pc, req, attempt, disp, memVars>>

InitMem ==
    /\ stm = [t \in AllThreadIds |-> <<>>]
    /\ pushed = [t \in AllThreadIds |-> 0]
    /\ proc = [c \in Callers |-> Idle]
    /\ ltm = <<>>
    /\ lastOp = [op |-> "none"]

InitDisp ==
    /\ networks = 0
    /\ containers = <<>>
    /\ pc = [w \in Workers |-> "idle"]
    /\ req = [w \in Workers |-> NoReq]
    /\ attempt = [w \in Workers |-> 0]
    /\ disp = [w \in Workers |-> NoDisp]

Init ==
    /\ window \in 0..MaxWindow
    /\ InitMem
    /\ InitDisp

\* sequential record_turn calls, with one window, on the threads of two users
Next == RecordTurn

Spec == Init /\ [][Next]_vars

\* sequential record_turn calls that alternate human and assistant turns
NextAlt == RecordAlternating

SpecAlt == Init /\ [][NextAlt]_vars

\* sequential add_memory calls
InitAdd ==
    /\ window = DefaultWindow
    /\ InitMem
    /\ InitDisp

NextAdd == AddMemory

SpecAdd == InitAdd /\ [][NextAdd]_vars

\* sequential add_memory calls, each with some calls of the store raising
NextAddDegraded == AddMemoryDegraded

SpecAddDegraded == InitAdd /\ [][NextAddDegraded]_vars

\* sequential run() calls of two users
NextRun == Run

SpecRun == InitAdd /\ [][NextRun]_vars

\* sequential /agent requests, with identifiers that may hold the separator
NextAgent == RunAgent

SpecAgent == InitAdd /\ [][NextAgent]_vars

\* sequential run() calls on one thread, each in an environment that may fail
NextTurn == RunDegraded

SpecTurn == InitAdd /\ [][NextTurn]_vars

\* concurrent record_turn calls on one thread, with one window of at least 1
InitConc ==
    /\ window \in 1..MaxWindow
    /\ InitMem
    /\ InitDisp

NextConc ==
    \/ \E c \in Callers : CallStoreStm(c)
    \/ \E c \in Callers : Llen(c)
    \/ \E c \in Callers : LpopFirst(c)
    \/ \E c \in Callers : Lindex(c)
    \/ \E c \in Callers : LpopSecond(c)
    \/ \E c \in Callers : Ltrim(c)

SpecConc == InitConc /\ [][NextConc]_vars

\* the same calls with any window the sequential calls are tried with
SpecConcAny == Init /\ [][NextConc]_vars

\* concurrent _add_memory_for_users calls on one store
NextConcAdd ==
    \E c \in Callers :
        \/ CallAddMemoryForUsers(c)
        \/ DedupSearch(c)
        \/ MemAdd(c)

SpecConcAdd == InitAdd /\ [][NextConcAdd]_vars

\* concurrent requests to the dispatcher
NextDisp ==
    \/ \E w \in Workers : Receive(w)
    \/ \E w \in Workers : NetList(w)
    \/ \E w \in Workers : NetCreate(w)
    \/ \E w \in Workers : Get(w)
    \/ \E w \in Workers : Start(w)
    \/ \E w \in Workers : Create(w)
    \/ \E w \in Workers : SleepReturn(w)
    \/ \E w \in Workers : Post(w)
    \/ \E w \in Workers : Finish(w)
    \/ ContainerStops

SpecDisp == InitAdd /\ [][NextDisp]_vars

(***************************************************************************)
(* The claims.                                                             *)
(***************************************************************************)

\* C1: window bound.  After every record_turn call of a behaviour whose calls
\* all use the window W, every thread's short-term list holds at most W turns.
C1_WindowBound == \A t \in ThreadIds : Len(stm[t]) <= window

\* a thread that was pushed more turns than the window holds, and is full
C1_Witness ==
    \E t \in ThreadIds : window >= 1 /\ pushed[t] > window /\ Len(stm[t]) = window

\* C2: pairing.  The pair a record_turn call hands to add_memory is a human
\* turn and the assistant turn pushed right after it on the same thread, in
\* that order, and every record the call writes has source stm_eviction and
\* the text built from that pair; a call that hands no pair writes nothing.
C2_Pairing ==
    lastOp.op = "store_stm" =>
        /\ lastOp.pair # <<>> =>
              /\ lastOp.pair[1].role = "human"
              /\ lastOp.pair[2].role = "assistant"
              /\ lastOp.pair[2].seq = lastOp.pair[1].seq + 1
        /\ \A i \in 1..Len(lastOp.wrote) :
              /\ lastOp.pair # <<>>
              /\ lastOp.wrote[i].source = "stm_eviction"
              /\ lastOp.wrote[i].memory = MemItem(lastOp.pair[1].text, lastOp.pair[2].text)

\* a record_turn call has just written an eviction record
C2_Witness ==
    /\ lastOp.op = "store_stm"
    /\ lastOp.wrote # <<>>
    /\ lastOp.wrote[1].source = "stm_eviction"

\* the stored records of one (text, user, scope, visibility)
Stored(store, text, target) ==
    {i \in 1..Len(store) :
        /\ store[i].memory = text
        /\ store[i].user_id = target.user_id
        /\ store[i].run_id = target.run_id
        /\ store[i].visibility = target.visibility}

\* C3: dedup.  After add_memory was called twice in a row with the same
\* arguments, the store holds exactly one record for each target's (text,
\* user, scope, visibility), and the second call wrote nothing.
C3_DedupTwice ==
    (lastOp.op = "add_memory" /\ lastOp.repeat) =>
        /\ lastOp.wrote = <<>>
        /\ LET targets == Targets(lastOp.args[2], lastOp.args[3], lastOp.args[4],
                                  lastOp.args[5])
           IN  \A i \in 1..Len(targets) :
                   Cardinality(Stored(ltm, lastOp.args[1], targets[i])) = 1

\* C4: visibility isolation.  No hit of the private or of the shared search of
\* a run of user B is a record with visibility private whose owner is another
\* user.
C4_Isolation ==
    (lastOp.op = "run" /\ lastOp.result = "response") =>
        \A h \in {lastOp.private_hits[i] : i \in 1..Len(lastOp.private_hits)}
                \cup {lastOp.shared_hits[i] : i \in 1..Len(lastOp.shared_hits)} :
            ~(h.visibility = "private" /\ h.owner # lastOp.user)

\* a run of B got hits while the store already held a private record owned
\* by another user
C4_Witness ==
    /\ lastOp.op = "run"
    /\ lastOp.result = "response"
    /\ lastOp.shared_hits # <<>>
    /\ \E i \in 1..(Len(ltm) - Len(lastOp.wrote)) :
          ltm[i].visibility = "private" /\ ltm[i].owner # lastOp.user

\* the containers a user's requests created
InstancesOf(u) == {i \in 1..Len(containers) : containers[i].user = u}

\* C5: idempotent provisioning under a create race.  No ensure_agent call of
\* concurrent requests ends in an error: each returns the user's address.
C5_EnsureNeverFails == \A w \in Workers : disp[w].ensure # "conflict"

\* C6: in every state, each user has at most one agent instance, whatever the
\* requests, their interleaving and their session ids.
C6_OneInstancePerUser == \A u \in UserIds : Cardinality(InstancesOf(u)) <= 1

\* two requests of one user with different session ids are both past
\* ensure_agent, and the user has one instance
C6_Witness ==
    \E v, w \in Workers :
        /\ v # w
        /\ req[v].user = req[w].user
        /\ req[v].sess # req[w].sess
        /\ disp[v].ensure = "returned"
        /\ disp[w].ensure = "returned"
        /\ Cardinality(InstancesOf(req[w].user)) = 1

\* C7: retry ceiling.  No request is forwarded more than 3 times; while every
\* attempt of a request has ended in a connection error or a read timeout,
\* the handler has slept 2 s after each attempt and goes on, until the 3rd
\* attempt, after which it does not sleep and answers 502.
C7_RetryCeiling ==
    \A w \in Workers :
        /\ disp[w].attempts <= 3
        /\ (disp[w].attempts >= 1 /\ disp[w].transient) =>
              IF pc[w] = "done"
              THEN disp[w].attempts = 3 /\ disp[w].slept = 4 /\ disp[w].status = 502
              ELSE pc[w] = "post" /\ disp[w].attempts < 3
                   /\ disp[w].slept = 2 * disp[w].attempts

\* a request ended in 502 after three attempts that all failed transiently
C7_Witness ==
    \E w \in Workers :
        /\ pc[w] = "done"
        /\ disp[w].transient
        /\ disp[w].attempts = 3
        /\ disp[w].status = 502

\* C8: once an attempt has ended in an error that is neither a connection
\* error nor a read timeout, the handler is done (it makes no further attempt)
\* and its answer is 502.
C8_OtherErrorEnds ==
    \A w \in Workers :
        disp[w].last \in {"OtherError", "HTTPStatusError"} =>
            pc[w] = "done" /\ disp[w].status = 502

\* a non-2xx status of the sandbox on a second attempt has ended a request
C8_Witness ==
    \E w \in Workers :
        /\ disp[w].last = "HTTPStatusError"
        /\ disp[w].attempts = 2
        /\ pc[w] = "done"

\* C9: a request whose session_id is missing or empty is answered 400 at
\* once: its handler makes no Docker API call and no forwarding attempt.
C9_MissingSession ==
    \A w \in Workers :
        (pc[w] # "idle" /\ Falsy(req[w].sess)) =>
            /\ pc[w] = "done"
            /\ disp[w].status = 400
            /\ ~disp[w].docker
            /\ disp[w].ensure = "none"
            /\ disp[w].attempts = 0

\* a request with an empty session_id was answered 400
C9_Witness ==
    \E w \in Workers :
        /\ pc[w] = "done"
        /\ req[w].sess = <<>>
        /\ disp[w].status = 400

\* C10: client errors reach the caller as 4xx.  When the sandbox has answered
\* a request with a valid session_id and a missing or empty message with its
\* client error, the Router's answer to the caller is a 4xx.
C10_ClientErrorIs4xx ==
    \A w \in Workers :
        (/\ pc[w] = "done"
         /\ ~Falsy(req[w].sess)
         /\ req[w].payload \in {"empty", "missing"}
         /\ disp[w].upstream \in {400, 422}) =>
            (disp[w].status >= 400 /\ disp[w].status <= 499)

ShareOnEmpty ==
    /\ lastOp.op = "run"
    /\ lastOp.result = "response"
    /\ lastOp.share
    /\ Len(lastOp.shared_with) = 1
    /\ Len(ltm) = Len(lastOp.wrote)
    /\ \A i \in 1..Len(lastOp.evicted) : lastOp.evicted[i] = <<>>

\* the two records of the share scenario, the owner's having visibility v
ShareRecords(v) ==
    LET t == lastOp.thread
        n == Len(stm[t])
    IN  /\ Len(ltm) = 2
        /\ \A i \in 1..2 :
              /\ ltm[i].memory = MemItem(stm[t][n - 1].text, stm[t][n].text)
              /\ ltm[i].memory = MemItem(lastOp.message, stm[t][n].text)
              /\ ltm[i].owner = lastOp.user
              /\ ltm[i].source = "immediate_share"
        /\ ltm[1].user_id = lastOp.user
        /\ ltm[1].run_id = SplitThread(t)[2]
        /\ ltm[1].visibility = v
        /\ ltm[2].user_id = lastOp.shared_with[1]
        /\ ltm[2].run_id = None
        /\ ltm[2].visibility = "shared"

\* C12 (as stated): a turn recorded with share=True and shared_with=[bob] on
\* an empty store, without window overflow, leaves exactly two records: one
\* private record scoped to the owner's session, and one shared record with
\* scope None under bob.
C12_ShareScenario == ShareOnEmpty => ShareRecords("private")

\* C12 (as amended): it leaves exactly two records, both of visibility shared:
\* one under the owner scoped to the owner's session, one under bob with
\* scope None.
C12_ShareScenarioShared == ShareOnEmpty => ShareRecords("shared")

\* the share scenario has run and left two records
C12_Witness == ShareOnEmpty /\ Len(ltm) = 2

\* C13: best-effort fan-out.  After an add_memory call in which the dedup
\* search or the write of some targets failed, every target whose search and
\* write did not fail has its record in the store: the one that was there
\* already (a duplicate) or the one the call wrote.
C13_FanOut ==
    (lastOp.op = "add_memory" /\ lastOp.failing # {}) =>
        LET targets == Targets(lastOp.args[2], lastOp.args[3], lastOp.args[4],
                               lastOp.args[5])
        IN  \A i \in 1..Len(targets) :
                (<<"dedup", i>> \notin lastOp.failing /\ <<"write", i>> \notin lastOp.failing)
                    => Stored(ltm, lastOp.args[1], targets[i]) # {}

\* C14: degraded memory.  A run during which calls of the long-term store
\* fail, while Redis and the agent runtime work, returns the response payload
\* and has appended the human turn and then the assistant turn to the
\* thread's list.
C14_DegradedMemory ==
    (/\ lastOp.op = "run"
     /\ lastOp.degraded
     /\ lastOp.redis_fault = "none"
     /\ lastOp.runtime = "answers") =>
        LET l == stm[lastOp.thread]
            n == Len(l)
        IN  /\ lastOp.result = "response"
            /\ n >= 2
            /\ l[n - 1].role = "human"    /\ l[n - 1].text = lastOp.message
            /\ l[n - 1].seq = pushed[lastOp.thread] - 1
            /\ l[n].role = "assistant"    /\ l[n].text \in Responses
            /\ l[n].seq = pushed[lastOp.thread]

\* a run whose store calls failed popped a pair, wrote nothing and answered
C14_Witness ==
    /\ lastOp.op = "run"
    /\ lastOp.degraded
    /\ lastOp.result = "response"
    /\ \E i \in 1..Len(lastOp.evicted) : lastOp.evicted[i] # <<>>
    /\ lastOp.wrote = <<>>

\* C15: a bad turn leaves the stored state alone.  A run that returns the
\* error payload leaves every thread's list and the long-term store as they
\* were before the call.
C15_ErrorLeavesState ==
    [][(lastOp'.op = "run" /\ lastOp'.result = "error") => (stm' = stm /\ ltm' = ltm)]_vars

\* C16: concurrent writers.  Whatever the interleaving of the Redis commands
\* of record_turn calls on one thread, the pair a call hands to add_memory is
\* a human turn and the assistant turn that was pushed right after it.
C16_ConcurrentPairing ==
    (lastOp.op = "store_stm" /\ lastOp.pair # <<>>) =>
        /\ lastOp.pair[1].role = "human"
        /\ lastOp.pair[2].role = "assistant"
        /\ lastOp.pair[2].seq = lastOp.pair[1].seq + 1

\* C17 (as stated): after a record_turn call that finds the list over the
\* window, the thread's list holds exactly window_size turns, also when the
\* call popped a pair.
C17_TrimExactly ==
    (lastOp.op = "store_stm" /\ lastOp.over) => Len(stm[lastOp.thread]) = window

\* C17 (as amended): after such a call the list holds exactly window_size
\* turns when the call dropped the oldest turn alone, and window_size - 1
\* turns when it popped a pair.
C17_TrimAfterOverflow ==
    (lastOp.op = "store_stm" /\ lastOp.over) =>
        Len(stm[lastOp.thread]) = IF lastOp.pair = <<>> THEN window ELSE window - 1

\* a call found the list over a window of 2, popped a pair and left one turn
C17_Witness ==
    /\ lastOp.op = "store_stm"
    /\ lastOp.over
    /\ lastOp.pair # <<>>
    /\ window = 2
    /\ Len(stm[lastOp.thread]) = 1

\* C18: a turn recorded with share=False is never disclosed.  When a run
\* pops a pair whose turns were recorded with share=False (and whose question
\* is not the one the run itself records), every record its eviction writes
\* with the pair's text is stored under the owner's user_id, also when the
\* run itself was called with share=True and recipients.
C18_UnsharedStaysPrivate ==
    (lastOp.op = "run" /\ lastOp.result = "response") =>
        \A k \in 1..Len(lastOp.evicted) :
            LET pair == lastOp.evicted[k]
            IN  (/\ pair # <<>>
                 /\ ~pair[1].share /\ ~pair[2].share
                 /\ pair[1].text # lastOp.message) =>
                    \A i \in 1..Len(lastOp.wrote) :
                        (/\ lastOp.wrote[i].source = "stm_eviction"
                         /\ lastOp.wrote[i].memory = MemItem(pair[1].text, pair[2].text))
                            => lastOp.wrote[i].user_id = lastOp.user

\* C19: threads are isolated by (user_id, session_id).  When a request has
\* been answered, the list it read and wrote is the list of its (user_id,
\* session_id) and of no other pair, its searches were made for its user_id,
\* and every record it wrote has its user_id as owner and user and its
\* session_id as scope; also for identifiers that hold the separator.
C19_ThreadIsolation ==
    (lastOp.op = "run" /\ lastOp.result = "response") =>
        \A u \in ReqUserIds, s \in ReqSessionIds :
            ThreadIdOf(u, s) = lastOp.thread =>
                /\ \A u2 \in ReqUserIds, s2 \in ReqSessionIds :
                      ThreadIdOf(u2, s2) = lastOp.thread => (u2 = u /\ s2 = s)
                /\ lastOp.user = u
                /\ \A i \in 1..Len(lastOp.wrote) :
                      /\ lastOp.wrote[i].owner = u
                      /\ lastOp.wrote[i].user_id = u
                      /\ lastOp.wrote[i].run_id = s

\* C20: a Memory Record is never created twice for the same (owner, scope,
\* text, visibility): no two records of the store, held for the same user,
\* agree in owner, scope, text and visibility, also when two add_memory
\* calls for the same tuple interleave between the dedup search and the write.
C20_NoDuplicateRecord ==
    \A i, j \in 1..Len(ltm) :
        (/\ i < j
         /\ ltm[i].user_id = ltm[j].user_id
         /\ ltm[i].owner = ltm[j].owner
         /\ ltm[i].run_id = ltm[j].run_id
         /\ ltm[i].memory = ltm[j].memory) => ltm[i].visibility # ltm[j].visibility

\* C21: add_memory writes whenever there is no duplicate.  After an add_memory
\* call with a working store, for each target whose (user_id, scope,
\* visibility) held no record of the call's text before the call, the call
\* wrote a record of that text for that target, whatever other texts the
\* store held for it.
C21_WritesUnlessDuplicate ==
    (lastOp.op = "add_memory" /\ lastOp.failing = {}) =>
        LET before  == SubSeq(ltm, 1, Len(ltm) - Len(lastOp.wrote))
            targets == Targets(lastOp.args[2], lastOp.args[3], lastOp.args[4],
                               lastOp.args[5])
        IN  \A i \in 1..Len(targets) :
                Stored(before, lastOp.args[1], targets[i]) = {} =>
                    Stored(lastOp.wrote, lastOp.args[1], targets[i]) # {}

\* the turns of a list
TurnsOf(l) == {l[i] : i \in 1..Len(l)}

\* C22: no silent loss in a normal conversation.  In sequential run() calls
\* with working stores, starting from empty lists, every completed run leaves
\* a list that is empty or starts with a human turn, and the turns that left
\* the list during the run are exactly the turns of the (human, assistant)
\* pairs the run handed to add_memory: none was dropped alone.
C22_NoSilentLoss ==
    [][(lastOp'.op = "run" /\ lastOp'.result = "response") =>
          LET t      == lastOp'.thread
              paired == UNION {TurnsOf(lastOp'.evicted[i]) : i \in 1..Len(lastOp'.evicted)}
          IN  /\ TurnsOf(stm[t]) \ TurnsOf(stm'[t]) = paired
              /\ \A p \in paired : p.seq <= pushed[t]
              /\ \A i \in 1..Len(lastOp'.evicted) :
                    lastOp'.evicted[i] # <<>> =>
                        /\ lastOp'.evicted[i][1].role = "human"
                        /\ lastOp'.evicted[i][2].role = "assistant"
              /\ stm'[t] # <<>> => stm'[t][1].role = "human"]_vars

\* a run whose store_stm call overflowed the window and migrated a pair
C22_Witness ==
    /\ lastOp.op = "run"
    /\ lastOp.result = "response"
    /\ \E i \in 1..Len(lastOp.evicted) : lastOp.evicted[i] # <<>>
    /\ Len(stm[lastOp.thread]) = DefaultWindow - 1

\* C23: unpaired eviction.  When a record_turn call overflows the window and
\* the oldest turn is not a human turn, or is a human turn with no successor
\* or with a successor that is not an assistant turn, the call removes that
\* oldest turn alone: the successor and all later turns stay, no pair is
\* handed to add_memory and the long-term store is left as it was.
C23_UnpairedEviction ==
    [][(/\ lastOp'.op = "store_stm"
        /\ lastOp'.over
        /\ LET l1 == stm[lastOp'.thread] \o <<lastOp'.turn>>
           IN  \/ l1[1].role # "human"
               \/ Len(l1) < 2
               \/ l1[2].role # "assistant")
       => /\ stm'[lastOp'.thread] = Tail(stm[lastOp'.thread] \o <<lastOp'.turn>>)
          /\ lastOp'.pair = <<>>
          /\ lastOp'.wrote = <<>>
          /\ ltm' = ltm]_vars

\* a call that overflowed dropped the oldest turn alone: the list it left
\* starts with a later human turn, and the store holds records
C23_Witness ==
    /\ lastOp.op = "store_stm"
    /\ lastOp.over
    /\ lastOp.pair = <<>>
    /\ stm[lastOp.thread] # <<>>
    /\ stm[lastOp.thread][1].role = "human"
    /\ stm[lastOp.thread][1].seq >= 2
    /\ ltm # <<>>

\* C24: immediate share.  In a run that answered, the targets of its
\* add_memory calls are: with share=True the owner with visibility shared and
\* the session as scope, then one target per recipient with visibility shared
\* and scope None; with share=False the owner with visibility private alone.
\* Every record the run wrote is for one of these targets, so a run with
\* share=False writes for no recipient.  A run with share=True hands its own
\* (message, response) pair over also when no store_stm call overflowed: each
\* target for which the store held no record then has the pair's record.
C24_ImmediateShare ==
    (lastOp.op = "run" /\ lastOp.result = "response") =>
        LET owner   == lastOp.user
            session == SplitThread(lastOp.thread)[2]
            before  == SubSeq(ltm, 1, Len(ltm) - Len(lastOp.wrote))
            targets == Targets(owner, session, lastOp.share, lastOp.shared_with)
        IN  /\ lastOp.share =>
                  targets = <<[user_id |-> owner, run_id |-> session,
                               visibility |-> "shared"]>>
                            \o [i \in 1..Len(lastOp.shared_with) |->
                                   [user_id |-> lastOp.shared_with[i], run_id |-> None,
                                    visibility |-> "shared"]]
            /\ ~lastOp.share =>
                  targets = <<[user_id |-> owner, run_id |-> session,
                               visibility |-> "private"]>>
            /\ \A i \in 1..Len(lastOp.wrote) :
                  /\ lastOp.wrote[i].owner = owner
                  /\ \E j \in 1..Len(targets) :
                        /\ lastOp.wrote[i].user_id = targets[j].user_id
                        /\ lastOp.wrote[i].run_id = targets[j].run_id
                        /\ lastOp.wrote[i].visibility = targets[j].visibility
            /\ (/\ lastOp.share
                /\ \A i \in 1..Len(lastOp.evicted) : lastOp.evicted[i] = <<>>) =>
                  \A j \in 1..Len(targets) :
                      Candidates(before, targets[j].user_id, targets[j].run_id) = {} =>
                          \E i \in 1..Len(lastOp.wrote), r \in Responses :
                              /\ lastOp.wrote[i].memory = MemItem(lastOp.message, r)
                              /\ lastOp.wrote[i].source = "immediate_share"
                              /\ lastOp.wrote[i].user_id = targets[j].user_id
                              /\ lastOp.wrote[i].run_id = targets[j].run_id
                              /\ lastOp.wrote[i].visibility = "shared"

\* a run with share=True on a store that already held records wrote the
\* owner's and the recipient's record of its pair without a window overflow
C24_Witness ==
    /\ lastOp.op = "run"
    /\ lastOp.result = "response"
    /\ lastOp.share
    /\ \A i \in 1..Len(lastOp.evicted) : lastOp.evicted[i] = <<>>
    /\ Len(lastOp.wrote) = 2
    /\ Len(ltm) > 2
    /\ lastOp.wrote[2].run_id = None

\* C25: the short-term list is an ordered suffix of the conversation.  Every
\* record_turn call leaves on its thread a contiguous suffix of the list it
\* found with the new turn appended, turns unchanged and in the order they
\* were appended, and leaves the other threads alone; load_stm returns these
\* turns oldest first, and they are the last turns appended to the thread,
\* one for each position, with no gap and no repetition.
C25_OrderedSuffix ==
    [][lastOp'.op = "store_stm" =>
          LET t  == lastOp'.thread
              l1 == stm[t] \o <<lastOp'.turn>>
              n  == Len(stm'[t])
          IN  /\ n <= Len(l1)
              /\ stm'[t] = SubSeq(l1, Len(l1) - n + 1, Len(l1))
              /\ LoadStm(stm'[t]) = [i \in 1..n |->
                                       [role |-> l1[Len(l1) - n + i].role,
                                        text |-> l1[Len(l1) - n + i].text]]
              /\ \A i \in 1..n : stm'[t][i].seq = pushed'[t] - n + i
              /\ \A o \in AllThreadIds \ {t} : stm'[o] = stm[o]]_vars

\* a thread that lost turns at its head still holds more than one turn
C25_Witness ==
    /\ lastOp.op = "store_stm"
    /\ Len(stm[lastOp.thread]) >= 2
    /\ pushed[lastOp.thread] > Len(stm[lastOp.thread])
    /\ stm[lastOp.thread][1].text # stm[lastOp.thread][2].text

\* C26: window bound with concurrent writers.  Whenever one of the concurrent
\* record_turn calls on a thread completes, the thread's list holds at most W
\* turns at that moment, whatever the other calls on the thread have done so far.
C26_ConcurrentBound ==
    [][\A c \in Callers :
          (proc[c].pc # "idle" /\ proc'[c].pc = "idle") =>
              Len(stm'[ConcThread]) <= window']_vars

\* C27: retrieval does not echo recent turns.  In a run that answered, a hit
\* whose text is the record of a (human, assistant) pair of turns that the
\* thread's list held when the run loaded it has no line in the memory block.
C27_NoEcho ==
    [][(lastOp'.op = "run" /\ lastOp'.result = "response") =>
          LET stm_history == LoadStm(stm[lastOp'.thread])
              all_hits    == AllHits(lastOp'.private_hits, lastOp'.shared_hits)
          IN  \A k \in 1..Len(all_hits), i \in 1..(Len(stm_history) - 1) :
                  (/\ stm_history[i].role = "human"
                   /\ stm_history[i + 1].role = "assistant"
                   /\ all_hits[k].memory = MemItem(stm_history[i].text,
                                                   stm_history[i + 1].text)) =>
                      \A j \in 1..Len(lastOp'.memory_block) :
                          lastOp'.memory_block[j] # FormatHit(all_hits[k], lastOp'.user)]_vars

\* C28: idempotent network creation.  Whatever ensure calls have run, also
\* concurrent ones that interleave between the list and the create, at most
\* one network of the shared name exists, and exactly one once an ensure call
\* is past ensure_network.
C28_OneNetwork ==
    /\ networks <= 1
    /\ \A w \in Workers :
          pc[w] \in {"get", "start", "run", "post"} => networks = 1

\* what the last Docker call of an ensure_agent call did, at the step of that
\* call: run created a running container of the user's name when none of
\* that name existed; start left the container of that name running and the
\* others as they were; get, when it found the container running, changed
\* nothing
EnsureActed(w) ==
    LET name  == AgentName(req[w].user)
        found == Named(containers, name)
    IN  /\ (pc[w] = "run" /\ pc'[w] = "sleep") =>
              /\ found = {}
              /\ Len(containers') = Len(containers) + 1
              /\ SubSeq(containers', 1, Len(containers)) = containers
              /\ containers'[Len(containers')].name = name
              /\ containers'[Len(containers')].status = "running"
        /\ (pc[w] = "start" /\ pc'[w] = "post") =>
              /\ found # {}
              /\ Named(containers', name) = found
              /\ \A i \in found : containers'[i].status = "running"
              /\ \A i \in (1..Len(containers)) \ found : containers'[i] = containers[i]
        /\ (pc[w] = "get" /\ pc'[w] = "post") =>
              /\ \E i \in found : containers[i].status = "running"
              /\ containers' = containers

\* an ensure_agent call returns in this step
EnsureReturns(w) == disp[w].ensure # "returned" /\ disp'[w].ensure = "returned"

C30_ConcurrentNeverRaises ==
    ~(lastOp.op = "store_stm" /\ lastOp.end = "raised")

====
